---- MODULE Spec2Model ----
(***************************************************************************)
(* Model of the Human Readable Dates plugin (src/main.ts).                 *)
(*                                                                         *)
(* Text is a sequence of one-character strings; offsets are 0-based as in  *)
(* the code (offset i is text[i+1]).  A Date is the record                 *)
(* [days, secs]: the local calendar day counted from 1970-01-01 and the    *)
(* second of that day.  The local zone has a fixed offset (no daylight     *)
(* saving shift), so local fields and elapsed time agree.  The unit of     *)
(* time is one second: getTime() differences are in seconds, and the       *)
(* code's millisecond constants are divided by 1000.                       *)
(***************************************************************************)
EXTENDS Integers, Sequences, FiniteSets, TLC

VARIABLES text, selection, clock, decorations, pc, point, parsedDate, result

vars == <<text, selection, clock, decorations, pc, point, parsedDate, result>>

(***************************************************************************)
(* Calendar arithmetic of the host's Date object (proleptic Gregorian).    *)
(***************************************************************************)
SecondsPerMinute == 60
SecondsPerHour == 3600
SecondsPerDay == 86400
MinutesPerDay == 1440

\* Day number (1970-01-01 = 0) of the civil date y-m-d, m in 1..12; d may lie
\* outside the month, the day count then runs over into the neighbours.
DaysFromCivil(y, m, d) ==
    LET yy == IF m <= 2 THEN y - 1 ELSE y
        era == yy \div 400
        yoe == yy - era * 400
        mp == IF m > 2 THEN m - 3 ELSE m + 9
        doy == (153 * mp + 2) \div 5 + d - 1
        doe == yoe * 365 + yoe \div 4 - yoe \div 100 + doy
    IN era * 146097 + doe - 719468

\* Civil date [year, month (1..12), day] of a day number.
CivilFromDays(z) ==
    LET zz == z + 719468
        era == zz \div 146097
        doe == zz - era * 146097
        yoe == (doe - doe \div 1460 + doe \div 36524 - doe \div 146096) \div 365
        doy == doe - (365 * yoe + yoe \div 4 - yoe \div 100)
        mp == (5 * doy + 2) \div 153
        d == doy - (153 * mp + 2) \div 5 + 1
        m == IF mp < 10 THEN mp + 3 ELSE mp - 9
    IN [year |-> IF m <= 2 THEN yoe + era * 400 + 1 ELSE yoe + era * 400,
        month |-> m, day |-> d]

\* new Date(year, monthIndex, day, hour, minute, second): local time; a year in
\* 0..99 means 1900 + year; out-of-range day, hour and minute roll over.
NewDate(year, monthIndex, day, hour, minute, second) ==
    LET yr == IF year >= 0 /\ year <= 99 THEN 1900 + year ELSE year
        totalMin == hour * 60 + minute
    IN [days |-> DaysFromCivil(yr, monthIndex + 1, 1) + (day - 1)
                    + totalMin \div MinutesPerDay,
        secs |-> (totalMin % MinutesPerDay) * SecondsPerMinute + second]

getFullYear(d) == CivilFromDays(d.days).year
getMonth(d) == CivilFromDays(d.days).month - 1
getDate(d) == CivilFromDays(d.days).day
getHours(d) == d.secs \div SecondsPerHour
getMinutes(d) == (d.secs \div SecondsPerMinute) % 60
\* Date.getTime() differences, in seconds.
TimeDiff(a, b) == (a.days - b.days) * SecondsPerDay + (a.secs - b.secs)

Abs(x) == IF x < 0 THEN -x ELSE x
\* Math.floor in place of Math.round.
MathRound_Floor(num, den) == num \div den

\* Math.round(num / den), den > 0: the nearest integer, halves towards +infinity.
MathRound(num, den) == (2 * num + den) \div (2 * den)
\* Math.ceil(num / den), den > 0.
MathCeil(num, den) == -((-num) \div den)

(***************************************************************************)
(* The date grammar of createDateRegex, matched on character sequences.    *)
(***************************************************************************)
dayNames ==
    << <<"M","o","n">>, <<"T","u","e">>, <<"W","e","d">>, <<"T","h","u">>,
       <<"F","r","i">>, <<"S","a","t">>, <<"S","u","n">> >>

monthNames ==
    << <<"J","a","n">>, <<"F","e","b">>, <<"M","a","r">>, <<"A","p","r">>,
       <<"M","a","y">>, <<"J","u","n">>, <<"J","u","l">>, <<"A","u","g">>,
       <<"S","e","p">>, <<"O","c","t">>, <<"N","o","v">>, <<"D","e","c">> >>

DigitChars == <<"0","1","2","3","4","5","6","7","8","9">>

IsDigit(c) == \E k \in 1..10 : DigitChars[k] = c
IsSpace(c) == c \in {" ", "\t", "\n"}

\* The character at offset i, "" past the end.
CharAt(s, i) == IF i >= 0 /\ i < Len(s) THEN s[i + 1] ELSE ""
\* s.substring(from, to)
Slice(s, from, to) == SubSeq(s, from + 1, to)

\* (Mon|Tue|...) at offset i: TRUE when one of the names stands there.
MatchesName(names, s, i) ==
    /\ i + 3 <= Len(s)
    /\ \E k \in 1..Len(names) : Slice(s, i, i + 3) = names[k]

\* End of the longest run of whitespace starting at offset i (\s+ is greedy).
RECURSIVE SkipSpaces(_, _)
SkipSpaces(s, i) == IF IsSpace(CharAt(s, i)) THEN SkipSpaces(s, i + 1) ELSE i

\* Length of the run of digits starting at offset i.
RECURSIVE DigitRun(_, _)
DigitRun(s, i) == IF IsDigit(CharAt(s, i)) THEN 1 + DigitRun(s, i + 1) ELSE 0

NoMatch == [ok |-> FALSE]

\* The first of two alternatives that matches (the engine tries a first).
FirstMatch(a, b) == IF a.ok THEN a ELSE b

\* (\d{1,2}):(\d{2}) at offset h, the hour being a run of hn digits: the ':' must
\* follow the hour, so the run is 1 or 2 digits long.
MatchClockAt(s, h, hn) ==
    IF /\ hn \in {1, 2}
       /\ CharAt(s, h + hn) = ":"
       /\ DigitRun(s, h + hn + 1) >= 2
    THEN [ok |-> TRUE, hourStr |-> Slice(s, h, h + hn),
          minuteStr |-> Slice(s, h + hn + 1, h + hn + 3), end |-> h + hn + 3]
    ELSE NoMatch

\* \s+(\d{1,2}):(\d{2}) tried at offset p (just after the year), the whitespace
\* ending at offset h.
MatchTimeFrom(s, p, h) ==
    IF h > p THEN MatchClockAt(s, h, DigitRun(s, h)) ELSE NoMatch

MatchTimeAt(s, p) == MatchTimeFrom(s, p, SkipSpaces(s, p))

\* (\d{4}) at offset y, after the whitespace that began at offset p3: four
\* digits, whatever follows them.
MatchYearAt(s, i, m, d, p3, y) ==
    IF y > p3 /\ DigitRun(s, y) >= 4
    THEN [ok |-> TRUE, index |-> i, dayName |-> Slice(s, i, i + 3),
          monthName |-> Slice(s, m, m + 3), dayStr |-> Slice(s, d, p3),
          yearStr |-> Slice(s, y, y + 4), end |-> y + 4]
    ELSE NoMatch

\* (\d{1,2})\s+ at offset d, the day being a run of dn digits: whitespace must
\* follow the day, so the run is 1 or 2 digits long.
MatchDayOfMonthAt(s, i, m, p2, d, dn) ==
    IF d > p2 /\ dn \in {1, 2}
    THEN MatchYearAt(s, i, m, d, d + dn, SkipSpaces(s, d + dn))
    ELSE NoMatch

\* (Jan|...|Dec)\s+ at offset m, after the whitespace that began at offset p1.
MatchMonthAt(s, i, p1, m, d) ==
    IF m > p1 /\ MatchesName(monthNames, s, m)
    THEN MatchDayOfMonthAt(s, i, m, m + 3, d, DigitRun(s, d))
    ELSE NoMatch

\* \s+(Jan|...|Dec) after the day name at offset i, the whitespace ending at m.
MatchAfterDayName(s, i, m) == MatchMonthAt(s, i, i + 3, m, SkipSpaces(s, m + 3))

\* The pattern of createDateRegex tried at offset i, up to and including the
\* year.
MatchDateHeadAt(s, i) ==
    IF MatchesName(dayNames, s, i)
    THEN MatchAfterDayName(s, i, SkipSpaces(s, i + 3))
    ELSE NoMatch

\* The head followed by the time group.
AttachTime(head, time) ==
    IF time.ok
    THEN [head EXCEPT !.end = time.end] @@
         [hourStr |-> time.hourStr, minuteStr |-> time.minuteStr]
    ELSE NoMatch

\* The whole pattern, given the match of its head; withTime says whether the
\* optional time group takes part.  Unmatched groups are the empty string.
CompleteMatch(s, head, withTime) ==
    IF ~head.ok THEN NoMatch
    ELSE IF withTime THEN AttachTime(head, MatchTimeAt(s, head.end))
    ELSE head @@ [hourStr |-> <<>>, minuteStr |-> <<>>]

MatchDateAt(s, i, withTime) == CompleteMatch(s, MatchDateHeadAt(s, i), withTime)

\* The plain pattern at offset i: the optional group is greedy.
PlainMatchAt(s, i) == FirstMatch(MatchDateAt(s, i, TRUE), MatchDateAt(s, i, FALSE))

\* \]\] after the date match m that began at offset i + 2; group 1 is the date.
CloseBracket(s, i, m) ==
    IF m.ok /\ CharAt(s, m.end) = "]" /\ CharAt(s, m.end + 1) = "]"
    THEN [m EXCEPT !.index = i, !.end = m.end + 2] @@
         [dateString |-> Slice(s, i + 2, m.end)]
    ELSE NoMatch

\* \[\[(date)\]\] at offset i: the date with its time if "]]" follows it, else
\* the date without time if "]]" follows that.
BracketedMatchAt(s, i) ==
    IF CharAt(s, i) = "[" /\ CharAt(s, i + 1) = "["
    THEN FirstMatch(CloseBracket(s, i, MatchDateAt(s, i + 2, TRUE)),
                    CloseBracket(s, i, MatchDateAt(s, i + 2, FALSE)))
    ELSE NoMatch

\* The pattern tried at offset i: the bracketed one or the plain one.
MatchAt(bracketed, s, i) ==
    IF bracketed THEN BracketedMatchAt(s, i) ELSE PlainMatchAt(s, i)

\* regex.exec(text) with regex.lastIndex = from: the leftmost match at or after
\* from; m is the result of the pattern at from.
RECURSIVE Exec(_, _, _)
RECURSIVE ExecFrom(_, _, _, _)
ExecFrom(bracketed, s, from, m) ==
    IF m.ok THEN m ELSE Exec(bracketed, s, from + 1)
Exec(bracketed, s, from) ==
    IF from > Len(s) THEN NoMatch
    ELSE ExecFrom(bracketed, s, from, MatchAt(bracketed, s, from))

\* The successive results of the loop  while ((match = regex.exec(text)) !== null):
\* each exec resumes at the end of the previous match m.
RECURSIVE ExecAll(_, _, _)
RECURSIVE ExecRest(_, _, _)
ExecRest(bracketed, s, m) ==
    IF m.ok THEN <<m>> \o ExecAll(bracketed, s, m.end) ELSE <<>>
ExecAll(bracketed, s, from) == ExecRest(bracketed, s, Exec(bracketed, s, from))

createDateRegex(s) == ExecAll(FALSE, s, 0)
createBracketedDateRegex(s) == ExecAll(TRUE, s, 0)

(***************************************************************************)
(* parseDateString and formatDateAsHumanReadable.                          *)
(***************************************************************************)
null == [ok |-> FALSE]
\* The absent phrase (formatDateAsHumanReadable returning null).
nullPhrase == "null"

\* The position in the list counted from 1.
IndexOfMonth_OneBased(name) ==
    IF \E k \in 1..Len(monthNames) : monthNames[k] = name
    THEN CHOOSE k \in 1..Len(monthNames) : monthNames[k] = name
    ELSE -1

\* monthNames.indexOf(monthName): 0-based, -1 when absent.
IndexOfMonth(name) ==
    IF \E k \in 1..Len(monthNames) : monthNames[k] = name
    THEN (CHOOSE k \in 1..Len(monthNames) : monthNames[k] = name) - 1
    ELSE -1

DigitValue(c) == (CHOOSE k \in 1..10 : DigitChars[k] = c) - 1

\* parseInt(str, 10) of a string of digits.
RECURSIVE ParseInt(_)
ParseInt(str) ==
    IF str = <<>> THEN 0
    ELSE 10 * ParseInt(SubSeq(str, 1, Len(str) - 1)) + DigitValue(str[Len(str)])

\* The body of parseDateString once the month is looked up.
DateOfGroups(monthIndex, dayStr, yearStr, hourStr, minuteStr) ==
    IF monthIndex = -1 THEN null
    ELSE NewDate(ParseInt(yearStr), monthIndex, ParseInt(dayStr),
                 IF hourStr # <<>> THEN ParseInt(hourStr) ELSE 0,
                 IF minuteStr # <<>> THEN ParseInt(minuteStr) ELSE 0, 0)

\* The body of parseDateString after dateString.match(regex).
DateOfMatch(match) ==
    IF ~match.ok THEN null
    ELSE DateOfGroups(IndexOfMonth(match.monthName), match.dayStr, match.yearStr,
                      match.hourStr, match.minuteStr)

parseDateString(dateString) == DateOfMatch(Exec(FALSE, dateString, 0))

\* The phrase of a difference rounded to count units (unit "min" or "hour").
CountPhrase(count, unit, past) ==
    IF past
    THEN IF count = 1 THEN "1 " \o unit \o " ago"
         ELSE ToString(count) \o " " \o unit \o "s ago"
    ELSE IF count = 1 THEN "In 1 " \o unit
         ELSE "In " \o ToString(count) \o " " \o unit \o "s"

\* The branch for dates with a time component less than 24 hours away.
TimePhrase(diffMs) ==
    IF Abs(diffMs) < 5 * SecondsPerMinute THEN "Now"
    ELSE IF Abs(diffMs) < 60 * SecondsPerMinute
    THEN CountPhrase(MathRound(Abs(diffMs), SecondsPerMinute), "min", diffMs < 0)
    ELSE CountPhrase(MathRound(Abs(diffMs), SecondsPerHour), "hour", diffMs < 0)

\* The phrase of a month or year count: unit "month" or "year".
PeriodPhrase(count, unit, past) ==
    IF past
    THEN IF count = 1 THEN "Last " \o unit
         ELSE ToString(count) \o " " \o unit \o "s ago"
    ELSE IF count = 1 THEN "Next " \o unit
         ELSE "In " \o ToString(count) \o " " \o unit \o "s"

\* The else-if chain on diffDays.
DayPhrase(diffDays) ==
    IF diffDays = 0 THEN "Today"
    ELSE IF diffDays = 1 THEN "Tomorrow"
    ELSE IF diffDays = -1 THEN "Yesterday"
    ELSE IF diffDays > 1 /\ diffDays <= 7
    THEN "In " \o ToString(diffDays) \o " days"
    ELSE IF diffDays < -1 /\ diffDays >= -7
    THEN ToString(Abs(diffDays)) \o " days ago"
    ELSE IF diffDays > 7 /\ diffDays <= 14 THEN "Next week"
    ELSE IF diffDays < -7 /\ diffDays >= -14 THEN "Last week"
    ELSE IF diffDays > 14 /\ diffDays <= 30
    THEN "In " \o ToString(MathCeil(diffDays, 7)) \o " weeks"
    ELSE IF diffDays < -14 /\ diffDays >= -30
    THEN ToString(MathCeil(Abs(diffDays), 7)) \o " weeks ago"
    ELSE IF diffDays > 30 /\ diffDays <= 365
    THEN PeriodPhrase(MathCeil(diffDays, 30), "month", FALSE)
    ELSE IF diffDays < -30 /\ diffDays >= -365
    THEN PeriodPhrase(MathCeil(Abs(diffDays), 30), "month", TRUE)
    ELSE IF diffDays > 365
    THEN PeriodPhrase(MathCeil(diffDays, 365), "year", FALSE)
    ELSE PeriodPhrase(MathCeil(Abs(diffDays), 365), "year", TRUE)

\* Whether the date has a time component (not just midnight).
hasTimeComponent(d) == getHours(d) # 0 \/ getMinutes(d) # 0

\* new Date(date.getFullYear(), date.getMonth(), date.getDate())
Midnight(d) == NewDate(getFullYear(d), getMonth(d), getDate(d), 0, 0, 0)

\* The day difference taken from the raw instants, without the midnights.
DiffDays_Raw(d, now) == MathRound(TimeDiff(d, now), SecondsPerDay)

\* Difference of the two dates taken at local midnight, in rounded days.
DiffDays(d, now) ==
    MathRound(TimeDiff(Midnight(d), Midnight(now)), SecondsPerDay)

\* The precise branch taken for every date less than 24 hours away.
PhraseOf_AnyTime(parsed, now) ==
    IF parsed = null THEN nullPhrase
    ELSE IF Abs(TimeDiff(parsed, now)) < 24 * SecondsPerHour
    THEN TimePhrase(TimeDiff(parsed, now))
    ELSE DayPhrase(DiffDays(parsed, now))

\* formatDateAsHumanReadable after parseDateString returned parsed and
\* new Date() returned now.
PhraseOf(parsed, now) ==
    IF parsed = null THEN nullPhrase
    ELSE IF hasTimeComponent(parsed) /\ Abs(TimeDiff(parsed, now)) < 24 * SecondsPerHour
    THEN TimePhrase(TimeDiff(parsed, now))
    ELSE DayPhrase(DiffDays(parsed, now))

formatDateAsHumanReadable(dateString, now) ==
    PhraseOf(parseDateString(dateString), now)

(***************************************************************************)
(* Date literals in the default layout  ddd MMM DD YYYY HH:mm.             *)
(***************************************************************************)
TwoDigits(n) == <<DigitChars[((n \div 10) % 10) + 1], DigitChars[(n % 10) + 1]>>
FourDigits(n) == TwoDigits(n \div 100) \o TwoDigits(n % 100)

\* ddd MMM DD YYYY of the calendar day year-month-day (month in 1..12).
DateLiteral(year, month, day) ==
    dayNames[((DaysFromCivil(year, month, day) + 3) % 7) + 1] \o <<" ">>
    \o monthNames[month] \o <<" ">> \o TwoDigits(day) \o <<" ">> \o FourDigits(year)

\* ddd MMM DD YYYY HH:mm
DateTimeLiteral(year, month, day, hour, minute) ==
    DateLiteral(year, month, day) \o <<" ">> \o TwoDigits(hour) \o <<":">>
    \o TwoDigits(minute)

\* The same literals for a day given by its day number.
DayLiteral(days) ==
    LET c == CivilFromDays(days) IN DateLiteral(c.year, c.month, c.day)
DayTimeLiteral(days, hour, minute) ==
    LET c == CivilFromDays(days)
    IN DateTimeLiteral(c.year, c.month, c.day, hour, minute)

(***************************************************************************)
(* Formatting one date string against one sampled instant.                 *)
(***************************************************************************)
\* Input dates lie at most MaxDiffDays calendar days from the base day.
MaxDiffDays == 750
\* Inputs carrying a time of day lie at most NearDays days from the base day.
NearDays == 2

\* Fri Aug 29 2025 and Wed Feb 28 2024 (the eve of a leap day).
BaseDays == {DaysFromCivil(2025, 8, 29), DaysFromCivil(2024, 2, 28)}

InputHours == 0..23
InputMinutes == {0, 5, 20, 45, 46, 49, 50, 51, 55}

\* Hour, minute and second of the instants new Date() is sampled at.
NowTimes == {<<0, 0, 0>>, <<14, 50, 0>>, <<14, 50, 30>>, <<21, 0, 0>>, <<23, 59, 59>>}

\* An instant of day number days.
Instant(days, hour, minute, second) ==
    LET c == CivilFromDays(days)
    IN NewDate(c.year, c.month - 1, c.day, hour, minute, second)

FormatNows(base) == {Instant(base, t[1], t[2], t[3]) : t \in NowTimes}

FormatInputs(base) ==
    {DayLiteral(base + k) : k \in (-MaxDiffDays)..MaxDiffDays}
    \cup {DayTimeLiteral(base + k, 12, 0) : k \in (-MaxDiffDays)..MaxDiffDays}
    \cup {DayTimeLiteral(base + k, h, m) :
             k \in (-NearDays)..NearDays, h \in InputHours, m \in InputMinutes}

NoPoint == [valid |-> FALSE]

FormatInit ==
    /\ \E base \in BaseDays :
          /\ text \in FormatInputs(base)
          /\ clock \in FormatNows(base)
    /\ selection = 0
    /\ decorations = <<>>
    /\ pc = "start"
    /\ point = NoPoint
    /\ parsedDate = null
    /\ result = nullPhrase

\* One call formatDateAsHumanReadable(text), new Date() returning clock.
FormatStep ==
    /\ pc = "start"
    /\ parsedDate' = parseDateString(text)
    /\ result' = formatDateAsHumanReadable(text, clock)
    /\ pc' = "done"
    /\ UNCHANGED <<text, selection, clock, decorations, point>>

FormatNext == FormatStep

SpecFormat == FormatInit /\ [][FormatNext]_vars

(***************************************************************************)
(* Parsing the literal of one calendar point.                              *)
(***************************************************************************)
ParseYears == {99, 1000, 1900, 2024, 2025, 9999}
ParseDays == {1, 9, 10, 28, 29, 30, 31}
ParseHours == {0, 9, 12, 23}
ParseMinutes == {0, 9, 59}

IsLeapYear(y) == (y % 4 = 0 /\ y % 100 # 0) \/ y % 400 = 0
DaysInMonth(y, m) ==
    IF m = 2 THEN (IF IsLeapYear(y) THEN 29 ELSE 28)
    ELSE IF m \in {4, 6, 9, 11} THEN 30 ELSE 31

\* The valid calendar points whose literals are parsed.
ParsePoints ==
    {p \in [year : ParseYears, month : 1..12, day : ParseDays,
            hour : ParseHours, minute : ParseMinutes] :
        p.day <= DaysInMonth(p.year, p.month)}

literalFor(p) == DateTimeLiteral(p.year, p.month, p.day, p.hour, p.minute)

ParseInit ==
    /\ point \in ParsePoints
    /\ text = literalFor(point)
    /\ clock = Instant(DaysFromCivil(2025, 8, 29), 14, 50, 0)
    /\ selection = 0
    /\ decorations = <<>>
    /\ pc = "start"
    /\ parsedDate = null
    /\ result = nullPhrase

\* One call parseDateString(text, format).
ParseStep ==
    /\ pc = "start"
    /\ parsedDate' = parseDateString(text)
    /\ pc' = "done"
    /\ UNCHANGED <<text, selection, clock, decorations, point, result>>

ParseNext == ParseStep

SpecParse == ParseInit /\ [][ParseNext]_vars

(***************************************************************************)
(* The live-preview view plugin: constructor, update and buildDecorations. *)
(***************************************************************************)
\* Only the third clause: the plain range encloses a bracketed one.
Overlaps_EnclosingOnly(from, to, processedRanges) ==
    \E k \in 1..Len(processedRanges) :
        from <= processedRanges[k].from /\ to >= processedRanges[k].to

\* The three-clause test of buildDecorations: does [from, to) overlap one of
\* the bracketed ranges?
Overlaps(from, to, processedRanges) ==
    \E k \in 1..Len(processedRanges) :
        LET range == processedRanges[k]
        IN \/ (from >= range.from /\ from < range.to)
           \/ (to > range.from /\ to <= range.to)
           \/ (from <= range.from /\ to >= range.to)

\* const cursorInRange = selection.from >= from && selection.from <= to
CursorInRange(sel, from, to) == sel >= from /\ sel <= to

\* The two decorations pushed for one occurrence: the widget at from, and the
\* mark hiding [from, to).
Overlay(originalText, humanReadable, isLink, from, to) ==
    << [kind |-> "widget", from |-> from, to |-> from, isLink |-> isLink,
        originalText |-> originalText, humanReadable |-> humanReadable],
       [kind |-> "mark", from |-> from, to |-> to, isLink |-> isLink,
        originalText |-> <<>>, humanReadable |-> ""] >>

\* What one iteration of either loop pushes, given the phrase it computed.
PushFor(originalText, humanReadable, isLink, from, to, sel) ==
    IF humanReadable # nullPhrase /\ ~CursorInRange(sel, from, to)
    THEN Overlay(originalText, humanReadable, isLink, from, to)
    ELSE <<>>

RECURSIVE Flatten(_)
Flatten(seqs) == IF seqs = <<>> THEN <<>> ELSE Head(seqs) \o Flatten(Tail(seqs))

\* sorted with one more element, placed after those whose from is not larger.
InsertByFrom(sorted, last, n) ==
    SubSeq(sorted, 1, n) \o <<last>> \o SubSeq(sorted, n + 1, Len(sorted))

InsertLast(sorted, last) ==
    InsertByFrom(sorted, last,
                 Cardinality({k \in 1..Len(sorted) : sorted[k].from <= last.from}))

\* array.sort((a, b) => a.from - b.from): stable, by insertion.
RECURSIVE SortByFrom(_)
SortByFrom(ds) ==
    IF ds = <<>> THEN <<>>
    ELSE InsertLast(SortByFrom(SubSeq(ds, 1, Len(ds) - 1)), ds[Len(ds)])

\* The ranges of the bracketed dates, tracked to avoid overlaps.
ProcessedRanges(bracketed) ==
    [k \in 1..Len(bracketed) |->
        [from |-> bracketed[k].index, to |-> bracketed[k].end]]

\* The matches of the plain pattern that overlap none of the ranges.
NotOverlapping(matches, processedRanges) ==
    LET keep(m) == ~Overlaps(m.index, m.end, processedRanges)
    IN SelectSeq(matches, keep)

\* The plain matches of doc that buildDecorations goes on to format, bracketed
\* being the matches of the bracketed pattern.
RegularDates(doc, bracketed) ==
    NotOverlapping(createDateRegex(doc), ProcessedRanges(bracketed))

\* The first loop pushes for the bracketed match m.
BracketedPush(doc, sel, m, now) ==
    PushFor(Slice(doc, m.index, m.end),
            formatDateAsHumanReadable(m.dateString, now),
            TRUE, m.index, m.end, sel)

\* The second loop pushes for a plain match m that overlaps no bracketed date.
RegularPush(doc, sel, m, now) ==
    PushFor(Slice(doc, m.index, m.end),
            formatDateAsHumanReadable(Slice(doc, m.index, m.end), now),
            FALSE, m.index, m.end, sel)

\* The decorations array after both loops and the sort; samples[k] is what
\* new Date() returns in the k-th call of formatDateAsHumanReadable.
Decorate(doc, sel, bracketed, regular, samples) ==
    SortByFrom(
        Flatten([k \in 1..Len(bracketed) |->
                    BracketedPush(doc, sel, bracketed[k], samples[k])])
        \o Flatten([k \in 1..Len(regular) |->
                       RegularPush(doc, sel, regular[k],
                                   samples[Len(bracketed) + k])]))

\* The two scans of buildDecorations: the matches of the bracketed pattern and
\* the plain matches that survive them.
Scan(doc, bracketed) ==
    [bracketed |-> bracketed, regular |-> RegularDates(doc, bracketed)]

Occurrences(doc) == Scan(doc, createBracketedDateRegex(doc))

\* Number of calls of formatDateAsHumanReadable in one buildDecorations.
NumFormatCalls(found) == Len(found.bracketed) + Len(found.regular)

\* buildDecorations(view) for a view with text doc and selection.main.from sel,
\* found being the occurrences of doc.
buildDecorations(doc, sel, found, samples) ==
    Decorate(doc, sel, found.bracketed, found.regular, samples)

\* The guard without its selectionSet disjunct.
ShouldRebuild_NoSelection(docChanged, viewportChanged, selectionSet) ==
    docChanged \/ viewportChanged

\* if (update.docChanged || update.viewportChanged || update.selectionSet)
ShouldRebuild(docChanged, viewportChanged, selectionSet) ==
    docChanged \/ viewportChanged \/ selectionSet

\* The wall clock takes at most MaxTicks steps of one second.
MaxTicks == 1

AddSeconds(d, n) ==
    [days |-> d.days + (d.secs + n) \div SecondsPerDay,
     secs |-> (d.secs + n) % SecondsPerDay]

\* One second before the midnight that ends Fri Aug 29 2025.
StartInstant == Instant(DaysFromCivil(2025, 8, 29), 23, 59, 59)
EditorInstants == {AddSeconds(StartInstant, n) : n \in 0..MaxTicks}

\* The instants new Date() can return in n successive calls starting at from:
\* the clock never runs backwards.
ClockSamples(n, from) ==
    {s \in [1..n -> EditorInstants] :
        /\ \A k \in 1..n : TimeDiff(s[k], from) >= 0
        /\ \A k \in 1..(n - 1) : TimeDiff(s[k + 1], s[k]) >= 0}

D1 == DateLiteral(2025, 8, 29)
D2 == DateTimeLiteral(2025, 8, 29, 23, 50)
Open == <<"[", "[">>
Close == <<"]", "]">>

\* "[[Fri Aug 29 2025]] Fri Aug 29 2025"
BothText == Open \o D1 \o Close \o <<" ">> \o D1
\* "Fri Aug 29 2025, Fri Aug 29 2025"
TwiceText == D1 \o <<",", " ">> \o D1
\* "Fri Aug 29 20255"
FiveDigitYearText == D1 \o <<"5">>

EditorTexts ==
    { <<>>,
      D1,
      Open \o D1 \o Close,
      BothText,
      TwiceText,
      FiveDigitYearText,
      <<"[">> \o D1 \o <<"]">>,
      D1 \o D1,
      <<"x", " ">> \o D2 }

\* this.decorations = this.buildDecorations(view), the clock reading from
\* before the call and then advancing with each sample.
Rebuild(doc, sel, found, from) ==
    \E samples \in ClockSamples(NumFormatCalls(found), from) :
        /\ decorations' = buildDecorations(doc, sel, found, samples)
        /\ clock' = IF samples = <<>> THEN from ELSE samples[Len(samples)]

\* The constructor: this.decorations = this.buildDecorations(view).
EditorInit ==
    /\ text \in EditorTexts
    /\ selection = 0
    /\ pc = "view"
    /\ point = NoPoint
    /\ parsedDate = null
    /\ result = nullPhrase
    /\ \E samples \in ClockSamples(NumFormatCalls(Occurrences(text)), StartInstant) :
          /\ decorations = buildDecorations(text, selection, Occurrences(text), samples)
          /\ clock = IF samples = <<>> THEN StartInstant ELSE samples[Len(samples)]

\* update(update) for a view update that leaves the view with doc and sel.
Update(docChanged, viewportChanged, selectionSet, doc, sel) ==
    /\ text' = doc
    /\ selection' = sel
    /\ IF ShouldRebuild(docChanged, viewportChanged, selectionSet)
       THEN Rebuild(doc, sel, Occurrences(doc), clock)
       ELSE UNCHANGED <<decorations, clock>>
    /\ UNCHANGED <<pc, point, parsedDate, result>>

Min(a, b) == IF a < b THEN a ELSE b

\* An edit: the selection is mapped through the change, staying where it was
\* or ending up after the inserted text.
DocChanged ==
    \E doc \in EditorTexts \ {text} :
        \E sel \in {Min(selection, Len(doc)), Len(doc)} :
            Update(TRUE, FALSE, FALSE, doc, sel)

\* The cursor moves: one character left or right, or to either end of the
\* document (any offset is reached by repeating it).
SelectionSet ==
    \E sel \in ({selection - 1, selection + 1, 0, Len(text)} \cap (0..Len(text)))
                  \ {selection} :
        Update(FALSE, FALSE, TRUE, text, sel)

\* The viewport scrolls or resizes.
ViewportChanged == Update(FALSE, TRUE, FALSE, text, selection)

\* A view update that changes none of the three (focus, geometry).
OtherUpdate == Update(FALSE, FALSE, FALSE, text, selection)

\* The wall clock advances between updates.
Tick ==
    /\ \E t \in EditorInstants : TimeDiff(t, clock) > 0 /\ clock' = t
    /\ UNCHANGED <<text, selection, decorations, pc, point, parsedDate, result>>

EditorNext == DocChanged \/ SelectionSet \/ ViewportChanged \/ OtherUpdate \/ Tick

SpecEditor == EditorInit /\ [][EditorNext]_vars

(***************************************************************************)
(* Properties.                                                             *)
(***************************************************************************)
\* The date has no time component: hour = 0 and minute = 0.
IsMidnight(d) == d.secs < SecondsPerMinute
\* Calendar days from the day of clock to the day of parsedDate.
DayDiff == parsedDate.days - clock.days
\* Seconds from clock to parsedDate.
Elapsed == TimeDiff(parsedDate, clock)
\* The least q with q * d >= n, for n >= 1.
CeilDiv(n, d) == CHOOSE q \in (n \div d)..((n \div d) + 1) : q * d >= n /\ (q - 1) * d < n

C1_Months(n) == CeilDiv(n, 30)
C1_Years(n) == CeilDiv(n, 365)
C1_Table(n) ==
    CASE n = 0 -> "Today"
      [] n = 1 -> "Tomorrow"
      [] n = -1 -> "Yesterday"
      [] n \in 2..7 -> "In " \o ToString(n) \o " days"
      [] n \in (-7)..(-2) -> ToString(-n) \o " days ago"
      [] n \in 8..14 -> "Next week"
      [] n \in (-14)..(-8) -> "Last week"
      [] n \in 15..30 -> "In " \o ToString(CeilDiv(n, 7)) \o " weeks"
      [] n \in (-30)..(-15) -> ToString(CeilDiv(-n, 7)) \o " weeks ago"
      [] n \in 31..365 ->
            IF C1_Months(n) = 1 THEN "Next month"
            ELSE "In " \o ToString(C1_Months(n)) \o " months"
      [] n \in (-365)..(-31) ->
            IF C1_Months(-n) = 1 THEN "Last month"
            ELSE ToString(C1_Months(-n)) \o " months ago"
      [] n > 365 ->
            IF C1_Years(n) = 1 THEN "Next year"
            ELSE "In " \o ToString(C1_Years(n)) \o " years"
      [] n < -365 ->
            IF C1_Years(-n) = 1 THEN "Last year"
            ELSE ToString(C1_Years(-n)) \o " years ago"

\* The phrases of the final else branch.
C1_YearsAgoPhrases ==
    {"Last year"} \cup {ToString(y) \o " years ago" : y \in 0..((MaxDiffDays \div 365) + 2)}

\* C1: when the parsed date has no time component or lies 24 hours or more from
\* now, the phrase is the table's entry for the integer day difference of the
\* two local midnights (7 gives "In 7 days", 8 gives "Next week"), and a phrase
\* of the final else branch appears only for a difference below -365.
C1_DayTierTable ==
    (pc = "done" /\ (IsMidnight(parsedDate) \/ Abs(Elapsed) >= 24 * SecondsPerHour))
        => /\ result = C1_Table(DayDiff)
           /\ (result \in C1_YearsAgoPhrases => DayDiff < -365)

C1_Witness ==
    /\ pc = "done"
    /\ ~IsMidnight(parsedDate)
    /\ Abs(Elapsed) >= 24 * SecondsPerHour
    /\ DayDiff = 8
    /\ result = "Next week"

\* The phrases of the minute/hour tier.
TimeTierPhrases ==
    {"Now", "1 min ago", "In 1 min", "1 hour ago", "In 1 hour"}
    \cup {ToString(n) \o u : n \in 0..60, u \in {" mins ago", " hours ago"}}
    \cup {"In " \o ToString(n) \o u : n \in 0..60, u \in {" mins", " hours"}}

\* C2 as amended: a date written without a time that lies 3 hours after now is
\* formatted by the day tier and the phrase is "Tomorrow"; a phrase of the
\* minute/hour tier appears only for a date with a time component less than
\* 24 hours from now.
C2_MidnightAhead ==
    pc = "done"
        => /\ (IsMidnight(parsedDate) /\ Elapsed = 3 * SecondsPerHour)
                  => result = "Tomorrow"
           /\ result \in TimeTierPhrases
                  => (~IsMidnight(parsedDate) /\ Abs(Elapsed) < 24 * SecondsPerHour)

C2_Witness ==
    /\ pc = "done"
    /\ IsMidnight(parsedDate)
    /\ Elapsed = 3 * SecondsPerHour
    /\ result = "Tomorrow"

\* C2 as stated: a date written without a time that lies 3 hours after now is
\* formatted by the day tier and the phrase is "Today"; the minute/hour tier is
\* used only with a time component less than 24 hours from now.
C2_Original ==
    pc = "done"
        => /\ (IsMidnight(parsedDate) /\ Elapsed = 3 * SecondsPerHour)
                  => result = "Today"
           /\ result \in TimeTierPhrases
                  => (~IsMidnight(parsedDate) /\ Abs(Elapsed) < 24 * SecondsPerHour)

\* Fri Aug 29 2025 14:50:00
ExampleNow == NewDate(2025, 7, 29, 14, 50, 0)
\* The date string the bracketed pattern captures in "[[Sun Aug 31 2025]]".
ExampleBracketed ==
    createBracketedDateRegex(Open \o DateLiteral(2025, 8, 31) \o Close)[1].dateString

\* The phrases of the four example inputs, in the order 14:55, 12:00, Aug 28
\* and [[Aug 31]].
ExamplesGive(p1, p2, p3, p4) ==
    (pc = "done" /\ clock = ExampleNow)
        => /\ text = DateTimeLiteral(2025, 8, 29, 14, 55) => result = p1
           /\ text = DateTimeLiteral(2025, 8, 29, 12, 0) => result = p2
           /\ text = DateLiteral(2025, 8, 28) => result = p3
           /\ text = ExampleBracketed => result = p4

\* C3 as amended: with now = Fri Aug 29 2025 14:50:00, "Fri Aug 29 2025 14:55"
\* gives "In 5 mins", "Fri Aug 29 2025 12:00" gives "3 hours ago",
\* "Thu Aug 28 2025" gives "Yesterday" and the date inside
\* "[[Sun Aug 31 2025]]" gives "In 2 days".
C3_Examples == ExamplesGive("In 5 mins", "3 hours ago", "Yesterday", "In 2 days")

C3_Witness ==
    /\ pc = "done"
    /\ clock = ExampleNow
    /\ text = DateTimeLiteral(2025, 8, 29, 12, 0)
    /\ result = "3 hours ago"

\* C3 as stated: the same four inputs give "Now", "2 hours ago", "Yesterday"
\* and "In 2 days".
C3_Original == ExamplesGive("Now", "2 hours ago", "Yesterday", "In 2 days")

C4_DocumentedForms ==
    {"Next month", "Last month", "Next year", "Last year", "In 1 min", "1 min ago",
     "2 weeks ago"}

\* C4: every phrase form the documentation names is produced for at least one
\* pair of a date and an instant (among the inputs, the ones at hand included).
C4_DocumentedFormsProduced ==
    \A p \in C4_DocumentedForms :
        \E base \in BaseDays :
            \E t \in FormatInputs(base) \cup {text} :
                \E now \in FormatNows(base) \cup {clock} :
                    formatDateAsHumanReadable(t, now) = p

\* C10: in the minute/hour tier the displayed count stays inside the
\* documented range: 5..59 for a minute phrase (5 <= |diffMinutes| < 60) and
\* 1..23 for an hour phrase (60 minutes <= |diff| < 24 hours).
C10_CountInRange ==
    (pc = "done" /\ ~IsMidnight(parsedDate) /\ Abs(Elapsed) < 24 * SecondsPerHour)
        => /\ (Abs(Elapsed) >= 5 * SecondsPerMinute /\ Abs(Elapsed) < SecondsPerHour)
                  => \E n \in 5..59 :
                        result \in {ToString(n) \o " mins ago",
                                    "In " \o ToString(n) \o " mins"}
           /\ Abs(Elapsed) >= SecondsPerHour
                  => \/ result \in {"1 hour ago", "In 1 hour"}
                     \/ \E n \in 2..23 :
                           result \in {ToString(n) \o " hours ago",
                                       "In " \o ToString(n) \o " hours"}

\* C8: the literal of a valid calendar point with a 4-digit year parses to a
\* date with the same year, month, day, hour and minute.
C8_RoundTrip ==
    (pc = "done" /\ point.year >= 1000)
        => /\ parsedDate # null
           /\ getFullYear(parsedDate) = point.year
           /\ getMonth(parsedDate) + 1 = point.month
           /\ getDate(parsedDate) = point.day
           /\ getHours(parsedDate) = point.hour
           /\ getMinutes(parsedDate) = point.minute

C8_Witness ==
    /\ pc = "done"
    /\ point = [year |-> 2024, month |-> 2, day |-> 29, hour |-> 23, minute |-> 59]
    /\ getMonth(parsedDate) = 1
    /\ getDate(parsedDate) = 29

\* The decorations that hide a span, and those that show a phrase.
Marks == {k \in 1..Len(decorations) : decorations[k].kind = "mark"}
Widgets == {k \in 1..Len(decorations) : decorations[k].kind = "widget"}
\* The half-open spans [a1, a2) and [b1, b2) share a character.
Intersect(a1, a2, b1, b2) == a1 < b2 /\ b1 < a2
\* A replacement is displayed for the span [from, to).
Replaced(from, to) ==
    \E k \in Marks : decorations[k].from = from /\ decorations[k].to = to
SeqRange(seq) == {seq[k] : k \in 1..Len(seq)}

\* C5: in one scan two occurrences carrying the same date string receive the
\* same phrase.
C5_SamePhrase ==
    \A j, k \in Widgets :
        decorations[j].originalText = decorations[k].originalText
            => decorations[j].humanReadable = decorations[k].humanReadable

\* C6: a replacement of a plain occurrence intersects no bracketed occurrence,
\* no two replacement spans overlap, and for the span of every plain match the
\* three-clause test against a span agrees with interval intersection.
C6_NoOverlap ==
    /\ \A k \in Marks : \A b \in SeqRange(createBracketedDateRegex(text)) :
          ~decorations[k].isLink
              => ~Intersect(decorations[k].from, decorations[k].to, b.index, b.end)
    /\ \A j, k \in Marks :
          j # k => ~Intersect(decorations[j].from, decorations[j].to,
                              decorations[k].from, decorations[k].to)
    /\ \A m \in SeqRange(createDateRegex(text)) :
          \A a \in 0..Len(text) : \A b \in (a + 1)..Len(text) :
              Overlaps(m.index, m.end, <<[from |-> a, to |-> b]>>)
                  <=> Intersect(m.index, m.end, a, b)

C6_Witness ==
    /\ text = BothText
    /\ selection = 25
    /\ Replaced(0, 19)
    /\ ~Replaced(2, 17)
    /\ ~Replaced(20, 35)

\* C7: an occurrence, bracketed or plain, is displayed transformed exactly
\* when the cursor is not within its span [start, end], ends included.
C7_CursorSuppression ==
    \A o \in SeqRange(Occurrences(text).bracketed) \cup SeqRange(Occurrences(text).regular) :
        Replaced(o.index, o.end) <=> ~(selection >= o.index /\ selection <= o.end)

C7_Witness ==
    /\ text = TwiceText
    /\ selection = 17
    /\ Replaced(0, 15)
    /\ ~Replaced(17, 32)

\* C9: for a weekday, a month, a day and then a run of 5 digits the plain
\* matcher yields no occurrence.
C9_NoTruncatedYear ==
    text = FiveDigitYearText => createDateRegex(text) = <<>>

====
